---------------------------- MODULE Spec2Model ----------------------------
(***************************************************************************)
(* A model of image_browser (src/image_browser/__main__.py): a Flask       *)
(* gallery that lists the images of one directory, paginates the listing,  *)
(* caches resized thumbnails under <base>_<tier>.jpg, serves files and     *)
(* deletes images together with their cached thumbnails.                   *)
(*                                                                         *)
(* Strings of the program (filenames, query-string values) are sequences   *)
(* of one-character strings, so that splitext, lower, endswith, int() and  *)
(* the sort are computed the way the program computes them.                *)
(***************************************************************************)
EXTENDS Integers, Sequences, FiniteSets, TLC

(***************************************************************************)
(* Bounds of the model.                                                    *)
(***************************************************************************)
\* requests of one behaviour of Spec, which start from any state of the files
MaxRequests == 1
\* changes of source files by the user in one behaviour
MaxEnvSteps == 1
\* largest directory of the pagination specification PageSpec
MaxFiles == 26
\* most files in the directory of the listing specification ListSpec
MaxListed == 3

(***************************************************************************)
(* Characters and Python string operations.                                *)
(***************************************************************************)
\* the characters the model uses, in code-point order
ASCII ==
  << " ", "+", "-", ".",
     "0", "1", "2", "3", "4", "5", "6", "7", "8", "9",
     "A", "B", "C", "D", "E", "F", "G", "H", "I", "J", "K", "L", "M",
     "N", "O", "P", "Q", "R", "S", "T", "U", "V", "W", "X", "Y", "Z",
     "_",
     "a", "b", "c", "d", "e", "f", "g", "h", "i", "j", "k", "l", "m",
     "n", "o", "p", "q", "r", "s", "t", "u", "v", "w", "x", "y", "z" >>

Chars == { ASCII[i] : i \in 1..Len(ASCII) }

\* rank of a character in code-point order
Ord == [ c \in Chars |-> CHOOSE i \in 1..Len(ASCII) : ASCII[i] = c ]

Digits == { "0", "1", "2", "3", "4", "5", "6", "7", "8", "9" }

DigitVal == [ c \in Digits |-> Ord[c] - Ord["0"] ]

\* str.lower() on one character
LowerChar(c) ==
  IF Ord[c] >= Ord["A"] /\ Ord[c] <= Ord["Z"]
    THEN ASCII[Ord[c] + (Ord["a"] - Ord["A"])]
    ELSE c

\* str.lower()
Lower(s) == [ i \in 1..Len(s) |-> LowerChar(s[i]) ]

\* str.endswith(suffix)
EndsWith(s, suffix) ==
  /\ Len(suffix) <= Len(s)
  /\ SubSeq(s, Len(s) - Len(suffix) + 1, Len(s)) = suffix

\* Python's < on str: lexicographic by code point
RECURSIVE StrLess(_, _)
StrLess(a, b) ==
  IF b = << >> THEN FALSE
  ELSE IF a = << >> THEN TRUE
  ELSE IF a[1] # b[1] THEN Ord[a[1]] < Ord[b[1]]
  ELSE StrLess(Tail(a), Tail(b))

\* str.rfind("."): the last index of a dot, 0 when there is none
LastDot(s) ==
  LET dots == { i \in 1..Len(s) : s[i] = "." }
  IN  IF dots = {} THEN 0 ELSE CHOOSE i \in dots : \A j \in dots : j <= i

\* os.path.splitext on a name without directory part: the extension starts
\* at the last dot unless only dots precede it
SplitExt(s) ==
  LET d == LastDot(s)
  IN  IF d > 0 /\ \E i \in 1..(d - 1) : s[i] # "."
        THEN << SubSeq(s, 1, d - 1), SubSeq(s, d, Len(s)) >>
        ELSE << s, << >> >>

\* str.strip() of whitespace
RECURSIVE LStrip(_)
LStrip(s) == IF s # << >> /\ s[1] = " " THEN LStrip(Tail(s)) ELSE s

RECURSIVE RStrip(_)
RStrip(s) ==
  IF s # << >> /\ s[Len(s)] = " " THEN RStrip(SubSeq(s, 1, Len(s) - 1)) ELSE s

Strip(s) == RStrip(LStrip(s))

\* the digits of an int() literal body: digits, single underscores only
\* between digits
DigitsOk(s) ==
  /\ s # << >>
  /\ \A i \in 1..Len(s) : s[i] \in Digits \/ s[i] = "_"
  /\ s[1] # "_" /\ s[Len(s)] # "_"
  /\ \A i \in 1..(Len(s) - 1) : ~(s[i] = "_" /\ s[i + 1] = "_")

RECURSIVE DigitsValue(_, _)
DigitsValue(s, acc) ==
  IF s = << >> THEN acc
  ELSE IF s[1] = "_" THEN DigitsValue(Tail(s), acc)
  ELSE DigitsValue(Tail(s), 10 * acc + DigitVal[s[1]])

\* int(str): [ok |-> FALSE] stands for ValueError
ParseInt(s) ==
  LET t    == Strip(s)
      neg  == t # << >> /\ t[1] = "-"
      sgn  == t # << >> /\ t[1] \in { "-", "+" }
      body == IF sgn THEN Tail(t) ELSE t
  IN  IF DigitsOk(body)
        THEN [ ok |-> TRUE,
               val |-> IF neg THEN 0 - DigitsValue(body, 0)
                              ELSE DigitsValue(body, 0) ]
        ELSE [ ok |-> FALSE, val |-> 0 ]


(***************************************************************************)
(* Program constants.                                                      *)
(***************************************************************************)
IMAGES_PER_PAGE == 12

\* the integers of PAGE_SIZE_OPTIONS that index() accepts
ALLOWED_PAGE_SIZES == { 25, 50, 100, 250 }

SMALL == << "s", "m", "a", "l", "l" >>
MEDIUM == << "m", "e", "d", "i", "u", "m" >>
LARGE == << "l", "a", "r", "g", "e" >>

\* SIZE_CONFIGS.keys(), in the dictionary's order
SIZE_CONFIGS == << SMALL, MEDIUM, LARGE >>

SizeKeys == { SIZE_CONFIGS[i] : i \in 1..Len(SIZE_CONFIGS) }

\* the tuple `extensions` of get_image_files
EXTENSIONS ==
  { << ".", "p", "n", "g" >>, << ".", "j", "p", "g" >>,
    << ".", "j", "p", "e", "g" >>, << ".", "g", "i", "f" >>,
    << ".", "b", "m", "p" >>, << ".", "w", "e", "b", "p" >> }

ALL == << "a", "l", "l" >>

(***************************************************************************)
(* The files.  A source file is "absent", a decodable image ("v1", "v2":   *)
(* two different pictures) or "corrupt" (present, not decodable).  A cache *)
(* path holds no file (st = "absent"), a file being written ("partial"),   *)
(* or a finished thumbnail of a picture ("v1", "v2"); "torn" is a file     *)
(* that two writers of different pictures wrote over each other.  writers  *)
(* are the requests that hold the file at that path open for writing and   *)
(* vers the pictures written into it since it was last truncated alone.    *)
(***************************************************************************)
Pictures == { "v1", "v2" }

NoFile == [ st |-> "absent", writers |-> {}, vers |-> {} ]

Thumb(v) == [ st |-> v, writers |-> {}, vers |-> {} ]

\* line 67 with the mutation "the cached file is never found"
ExistsNever(e) == FALSE

\* os.path.exists on a path whose state is e
Exists(e) == e.st # "absent"

\* line 63 with the mutation "the extension stays in the cache filename"
CacheFilenameKeepExt(name, size_key) ==
  name \o << "_" >> \o size_key \o << ".", "j", "p", "g" >>

\* f"{os.path.splitext(name)[0]}_{size_key}.jpg"
CacheFilename(name, size_key) ==
  SplitExt(name)[1] \o << "_" >> \o size_key \o << ".", "j", "p", "g" >>

(***************************************************************************)
(* get_image_files: the names of the directory with an image extension,    *)
(* sorted.                                                                 *)
(***************************************************************************)
\* line 34 with the mutation "the name is not lowercased"
IsImageNameNoLower(name) == \E e \in EXTENSIONS : EndsWith(name, e)

\* filename.lower().endswith(extensions)
IsImageName(name) == \E e \in EXTENSIONS : EndsWith(Lower(name), e)

\* list.sort() on distinct strings: insertion of x into a sorted list
RECURSIVE SortedInsert(_, _)
SortedInsert(x, s) ==
  IF s = << >> THEN << x >>
  ELSE IF StrLess(x, s[1]) THEN << x >> \o s
  ELSE << s[1] >> \o SortedInsert(x, Tail(s))

\* the sorted list of a set of names
RECURSIVE SortNames(_)
SortNames(S) ==
  IF S = {} THEN << >>
  ELSE LET x == CHOOSE y \in S : TRUE
       IN  SortedInsert(x, SortNames(S \ { x }))

\* get_image_files() on the directory dir (name -> content)
GetImageFiles(exists, dir) ==
  IF exists
    THEN SortNames({ n \in DOMAIN dir : dir[n] # "absent" /\ IsImageName(n) })
    ELSE << >>

(***************************************************************************)
(* Pagination, index() lines 99-130.                                       *)
(***************************************************************************)
\* a query parameter: absent, or its string
NoArg == [ has |-> FALSE, val |-> << >> ]

Arg(s) == [ has |-> TRUE, val |-> s ]

\* request.args.get(key, default)
ArgGet(a, default) == IF a.has THEN a.val ELSE default

\* lines 100-109 with the mutation "any positive integer is accepted"
NormalizePageSizeAcceptAny(page_size) ==
  IF page_size = ALL THEN [ all |-> TRUE, n |-> 0 ]
  ELSE LET p == ParseInt(page_size)
       IN  IF p.ok /\ p.val > 0
             THEN [ all |-> FALSE, n |-> p.val ]
             ELSE [ all |-> FALSE, n |-> IMAGES_PER_PAGE ]

\* lines 100-109: images_per_page from page_size; all = TRUE is None
NormalizePageSize(page_size) ==
  IF page_size = ALL THEN [ all |-> TRUE, n |-> 0 ]
  ELSE LET p == ParseInt(page_size)
       IN  IF p.ok
             THEN IF p.val \in ALLOWED_PAGE_SIZES
                    THEN [ all |-> FALSE, n |-> p.val ]
                    ELSE [ all |-> FALSE, n |-> IMAGES_PER_PAGE ]
             ELSE [ all |-> FALSE, n |-> IMAGES_PER_PAGE ]

Max(a, b) == IF a >= b THEN a ELSE b

Min(a, b) == IF a <= b THEN a ELSE b

\* math.ceil(a / b) for a >= 0, b > 0
Ceil(a, b) == (a + b - 1) \div b

\* line 122 with the mutation "no max(1, ...)"
TotalPagesNoFloor(total_images, images_per_page) ==
  Ceil(total_images, images_per_page)

\* line 122
TotalPages(total_images, images_per_page) ==
  Max(1, Ceil(total_images, images_per_page))

\* line 125
ClampPage(page, total_pages) == Max(1, Min(page, total_pages))

\* seq[start:end] for 0 <= start <= end
PySlice(s, start, end) == SubSeq(s, Min(start, Len(s)) + 1, Min(end, Len(s)))

\* lines 128-130 with the mutation "start_idx = page * images_per_page"
PageSliceOffByOne(image_files, page, images_per_page) ==
  PySlice(image_files, page * images_per_page,
          page * images_per_page + images_per_page)

\* lines 128-130 with the mutation "the page is the whole listing"
PageSliceWhole(image_files, page, images_per_page) == image_files

\* lines 128-130
PageSlice(image_files, page, images_per_page) ==
  LET start_idx == (page - 1) * images_per_page
      end_idx   == start_idx + images_per_page
  IN  PySlice(image_files, start_idx, end_idx)

\* lines 117-120 with the mutation "keep the requested page"
ShowAllKeepPage(image_files, page) ==
  [ total_pages |-> 1, page |-> page, page_images |-> image_files ]

\* lines 117-120
ShowAll(image_files, page) ==
  [ total_pages |-> 1, page |-> 1, page_images |-> image_files ]

\* lines 115-130
Paginate(image_files, page, ipp) ==
  IF ipp.all THEN ShowAll(image_files, page)
  ELSE LET total_pages == TotalPages(Len(image_files), ipp.n)
           clamped     == ClampPage(page, total_pages)
       IN  [ total_pages |-> total_pages, page |-> clamped,
             page_images |-> PageSlice(image_files, clamped, ipp.n) ]

(***************************************************************************)
(* State.                                                                  *)
(*   dir_exists  whether IMAGE_DIR exists                                  *)
(*   src         IMAGE_DIR: name -> content of the source file             *)
(*   cache       CACHE_DIR: cache filename -> state of the file            *)
(*   th          the requests in progress, one per server thread           *)
(*   hist        the last two finished requests, the latest first          *)
(*   quota       requests that may still start                             *)
(*   nenv        changes of source files made by the user                  *)
(***************************************************************************)
VARIABLES dir_exists, src, cache, th, hist, quota, nenv

vars == << dir_exists, src, cache, th, hist, quota, nenv >>

\* no call of resize_and_cache_image in progress
NoFrame ==
  [ path |-> << >>, size_key |-> << >>, key |-> << >>, img |-> "none",
    created |-> FALSE, decoded |-> FALSE, opened |-> FALSE, ret |-> "none",
    before |-> NoFile ]

\* None as a thumbnail URL of view_image
NoUrl == [ route |-> "none", name |-> << >> ]

\* a thread that handles no request
Idle ==
  [ op |-> "idle", pc |-> "idle", filename |-> << >>,
    page_arg |-> NoArg, size_arg |-> NoArg, page_size_arg |-> NoArg,
    status |-> 0, faulted |-> FALSE, observed |-> "none", times |-> 0,
    size |-> << >>, page |-> 0, ipp |-> [ all |-> FALSE, n |-> 0 ],
    total_images |-> 0, total_pages |-> 0,
    image_files |-> << >>, page_images |-> << >>, idx |-> 0,
    images_data |-> << >>, d_todo |-> << >>,
    current_index |-> 0, prev_filename |-> NoArg, next_filename |-> NoArg,
    prev_thumb_url |-> NoUrl, next_thumb_url |-> NoUrl,
    current_thumb_url |-> NoUrl,
    r |-> NoFrame, calls |-> << >>,
    pre_src |-> << >>, pre_cache |-> << >> ]

\* the record of a request that starts now
Begin(op, filename) ==
  [ Idle EXCEPT !.op = op, !.filename = filename,
                !.pre_src = src, !.pre_cache = cache ]

\* the request of thread t ends with the given status: it is recorded with
\* the files as they are when it responds
Finish(t, rec, status, src2, cache2) ==
  LET done == [ rec EXCEPT !.status = status, !.pc = "done" ]
      e    == [ req |-> done, post_src |-> src2, post_cache |-> cache2 ]
  IN  /\ hist' = IF hist = << >> THEN << e >> ELSE << e, hist[1] >>
      /\ th' = [ th EXCEPT ![t] = Idle ]

CanStart(t) == th[t].op = "idle" /\ quota > 0

(***************************************************************************)
(* resize_and_cache_image(image_path, size_key), lines 60-86, as the       *)
(* steps between which another request may run.  image_path is            *)
(* IMAGE_DIR/path.  The result is Arg(cache filename), or NoArg for None.  *)
(***************************************************************************)
\* lines 139-156 with the mutation "the thumbnail URL is always a cache URL"
ImageRecordNoFallback(filename, result) ==
  [ filename  |-> filename,
    cache_url |-> [ route |-> "cache", name |-> result.val ],
    full_url  |-> [ route |-> "image", name |-> filename ] ]

\* the images_data entry of index() for one file, lines 139-156; the
\* caption is read from captions/ and changes no state
ImageRecord(filename, result) ==
  [ filename  |-> filename,
    cache_url |-> IF result.has
                    THEN [ route |-> "cache", name |-> result.val ]
                    ELSE [ route |-> "image", name |-> filename ],
    full_url  |-> [ route |-> "image", name |-> filename ] ]

\* the thumbnail URL that view_image makes of a result, lines 239-243,
\* 250-254, 262-266
ThumbUrl(filename, result) ==
  IF result.has THEN [ route |-> "cache", name |-> result.val ]
                ELSE [ route |-> "image", name |-> filename ]

\* the frame of a call that starts with the cache directory c
Frame(path, size_key, ret, c) ==
  [ NoFrame EXCEPT !.path = path, !.size_key = size_key,
                   !.key = CacheFilename(path, size_key), !.ret = ret,
                   !.before = c[CacheFilename(path, size_key)] ]

\* the call of thread t returns result to its caller; cache2 is the cache
\* directory as the call leaves it
Return(t, rec, result, seen, cache2) ==
  LET call == [ path |-> rec.r.path, size_key |-> rec.r.size_key,
                key |-> rec.r.key, result |-> result,
                hit |-> ~rec.r.decoded /\ result.has, seen |-> seen,
                decoded |-> rec.r.decoded, opened |-> rec.r.opened,
                before |-> rec.r.before, after |-> cache2[rec.r.key] ]
      back == [ rec EXCEPT !.r = NoFrame, !.calls = @ \o << call >> ]
  IN  IF rec.r.ret = "resolve"
        THEN \* the caller calls again, or is done
             IF Len(back.calls) < back.times
               THEN /\ th' = [ th EXCEPT ![t] =
                                 [ back EXCEPT
                                     !.r = Frame(rec.r.path, rec.r.size_key,
                                                 "resolve", cache2),
                                     !.pc = "r_check" ] ]
                    /\ UNCHANGED hist
               ELSE Finish(t, back, 0, src, cache2)
      ELSE IF rec.r.ret = "index"
        THEN \* index(), lines 139-156, and the next turn of its loop
             LET nxt == [ back EXCEPT
                            !.images_data =
                               @ \o << ImageRecord(rec.r.path, result) >>,
                            !.idx = @ + 1, !.pc = "i_loop" ]
             IN  IF nxt.idx > Len(nxt.page_images)
                   THEN Finish(t, nxt, 200, src, cache2)
                   ELSE /\ th' = [ th EXCEPT ![t] = nxt ]
                        /\ UNCHANGED hist
      ELSE IF rec.r.ret = "view_prev"
        THEN \* view_image(), lines 239-243
             /\ th' = [ th EXCEPT ![t] =
                          [ back EXCEPT
                              !.prev_thumb_url = ThumbUrl(rec.r.path, result),
                              !.pc = "v_next" ] ]
             /\ UNCHANGED hist
      ELSE IF rec.r.ret = "view_next"
        THEN \* view_image(), lines 250-254
             /\ th' = [ th EXCEPT ![t] =
                          [ back EXCEPT
                              !.next_thumb_url = ThumbUrl(rec.r.path, result),
                              !.pc = "v_current" ] ]
             /\ UNCHANGED hist
        ELSE \* view_image(), lines 262-283
             Finish(t, [ back EXCEPT
                           !.current_thumb_url = ThumbUrl(rec.r.path, result) ],
                    200, src, cache2)

\* lines 62-68: the cache path is computed and, if a file is there, returned
RCheck(t) ==
  /\ th[t].pc = "r_check"
  /\ LET rec == th[t]
         e   == cache[rec.r.key]
     IN  IF Exists(e)
           THEN Return(t, rec, Arg(rec.r.key), e.st, cache)
           ELSE /\ th' = [ th EXCEPT ![t].pc = "r_decode" ]
                /\ UNCHANGED hist
  /\ UNCHANGED << dir_exists, src, cache, quota, nenv >>

\* lines 72-78: Image.open, convert, thumbnail; a missing or undecodable
\* source raises, which line 84 turns into None
RDecode(t) ==
  /\ th[t].pc = "r_decode"
  /\ LET rec == [ th[t] EXCEPT !.r.decoded = TRUE ]
     IN  IF rec.r.path \in DOMAIN src /\ src[rec.r.path] \in Pictures
           THEN /\ th' = [ th EXCEPT ![t] =
                             [ rec EXCEPT !.r.img = src[rec.r.path],
                                          !.pc = "r_save_open" ] ]
                /\ UNCHANGED hist
           ELSE Return(t, rec, NoArg, "none", cache)
  /\ UNCHANGED << dir_exists, src, cache, quota, nenv >>

\* the cache path after thread t opened it for writing ("w+b": created or
\* truncated) with the picture img to write
OpenedForWrite(e, t, img) ==
  [ st |-> "partial", writers |-> e.writers \cup { t },
    vers |-> IF e.writers = {} THEN { img } ELSE e.vers \cup { img } ]

\* line 81, img.save: the file is opened
RSaveOpen(t) ==
  /\ th[t].pc = "r_save_open"
  /\ LET rec == th[t]
         e   == cache[rec.r.key]
     IN  /\ cache' = [ cache EXCEPT ![rec.r.key] =
                         OpenedForWrite(e, t, rec.r.img) ]
         /\ th' = [ th EXCEPT ![t] =
                      [ rec EXCEPT !.r.created = ~Exists(e),
                                   !.r.opened = TRUE,
                                   !.pc = "r_save_write" ] ]
  /\ UNCHANGED << dir_exists, src, hist, quota, nenv >>

\* the cache path after writer t wrote its picture and closed the file; a
\* writer whose file was unlinked meanwhile changes nothing at the path
Written(e, t) ==
  IF t \notin e.writers THEN e
  ELSE IF e.writers # { t }
    THEN [ e EXCEPT !.writers = @ \ { t } ]
  ELSE IF Cardinality(e.vers) = 1
    THEN Thumb(CHOOSE v \in e.vers : TRUE)
    ELSE [ st |-> "torn", writers |-> {}, vers |-> {} ]

\* line 81 with the mutation "a failed save leaves its file behind"
SaveFailedNoCleanup(e, t, created) ==
  IF t \in e.writers THEN [ e EXCEPT !.writers = @ \ { t } ] ELSE e

\* the cache path after writer t failed: Image.save closes the file and
\* removes it if this call created it (created: no file was at the path
\* when save opened it), before the error reaches line 84
SaveFailed(e, t, created) ==
  IF created THEN NoFile
  ELSE IF t \in e.writers THEN [ e EXCEPT !.writers = @ \ { t } ]
  ELSE e

\* line 81, img.save: the JPEG is encoded and written, or the encoder or
\* the write fails and line 84 returns None
RSaveWrite(t) ==
  /\ th[t].pc = "r_save_write"
  /\ LET rec == th[t]
         e   == cache[rec.r.key]
     IN  \/ /\ cache' = [ cache EXCEPT ![rec.r.key] = Written(e, t) ]
            /\ Return(t, rec, Arg(rec.r.key), "none", cache')
         \/ /\ cache' = [ cache EXCEPT ![rec.r.key] =
                            SaveFailed(e, t, rec.r.created) ]
            /\ Return(t, [ rec EXCEPT !.faulted = TRUE ], NoArg, "none",
                      cache')
  /\ UNCHANGED << dir_exists, src, quota, nenv >>

\* a caller other than a handler (the tests) calls
\* resize_and_cache_image(IMAGE_DIR/path, size_key), once or twice in
\* succession
StartResolve(t, path, size_key, times) ==
  /\ CanStart(t)
  /\ th' = [ th EXCEPT ![t] =
               [ Begin("resolve", path) EXCEPT
                   !.size = size_key, !.times = times,
                   !.r = Frame(path, size_key, "resolve", cache),
                   !.pc = "r_check" ] ]
  /\ quota' = quota - 1
  /\ UNCHANGED << dir_exists, src, cache, hist, nenv >>

(***************************************************************************)
(* POST /delete/<filename>, lines 188-206.                                 *)
(***************************************************************************)
\* line 192 with the mutation "or a cached thumbnail of it exists"
DeleteFoundOrCached(filename) ==
  \/ src[filename] # "absent"
  \/ \E k \in SizeKeys : Exists(cache[CacheFilename(filename, k)])

\* line 192: os.path.exists(image_path)
DeleteFound(filename) == src[filename] # "absent"

\* lines 191-192 and 205-206: the source is looked up
StartDelete(t, filename) ==
  /\ CanStart(t)
  /\ quota' = quota - 1
  /\ LET rec == Begin("delete", filename)
     IN  IF DeleteFound(filename)
           THEN /\ th' = [ th EXCEPT ![t] =
                             [ rec EXCEPT !.pc = "d_remove_src" ] ]
                /\ UNCHANGED hist
           ELSE Finish(t, rec, 404, src, cache)
  /\ UNCHANGED << dir_exists, src, cache, nenv >>

\* line 194 with the mutation "every file with the same base name goes"
RemovedSourceSameBase(s, filename) ==
  [ n \in DOMAIN s |->
      IF SplitExt(n)[1] = SplitExt(filename)[1] THEN "absent" ELSE s[n] ]

\* the directory s after os.remove(image_path), line 194
RemovedSource(s, filename) == [ s EXCEPT ![filename] = "absent" ]

\* line 194: os.remove(image_path); it raises if the file is gone meanwhile
\* or cannot be removed, and lines 202-204 answer 500
DRemoveSrc(t) ==
  /\ th[t].pc = "d_remove_src"
  /\ LET rec == th[t]
     IN  \/ /\ src[rec.filename] # "absent"
            /\ src' = RemovedSource(src, rec.filename)
            /\ th' = [ th EXCEPT ![t] =
                         [ rec EXCEPT !.pc = "d_cache",
                                      !.d_todo = SIZE_CONFIGS ] ]
            /\ UNCHANGED hist
         \/ /\ src' = src
            /\ Finish(t, [ rec EXCEPT !.faulted = TRUE ], 500, src, cache)
  /\ UNCHANGED << dir_exists, cache, quota, nenv >>

\* line 196 with the mutation "the loop ends after its first turn"
DeleteNextTierStop(rec) == [ rec EXCEPT !.d_todo = << >> ]

\* the thread record after one turn of the loop of lines 196-200
DeleteNextTier(rec) == [ rec EXCEPT !.d_todo = Tail(@) ]

\* lines 196-201: one size key of the loop: the cached thumbnail is removed
\* if it exists; after the last key the answer is 204
DCache(t) ==
  /\ th[t].pc = "d_cache"
  /\ LET rec == th[t]
         key == CacheFilename(rec.filename, Head(rec.d_todo))
         nxt == DeleteNextTier(rec)
     IN  \/ /\ cache' = [ cache EXCEPT ![key] = NoFile ]
            /\ IF nxt.d_todo = << >>
                 THEN Finish(t, nxt, 204, src, cache')
                 ELSE /\ th' = [ th EXCEPT ![t] = nxt ]
                      /\ UNCHANGED hist
         \/ /\ Exists(cache[key])
            /\ cache' = cache
            /\ Finish(t, [ rec EXCEPT !.faulted = TRUE ], 500, src, cache)
  /\ UNCHANGED << dir_exists, src, quota, nenv >>

(***************************************************************************)
(* GET /cache/<filename> and GET /image/<filename>, lines 168-185.         *)
(***************************************************************************)
\* lines 171-172, 176: the file is looked up
StartServeCached(t, filename) ==
  /\ CanStart(t)
  /\ quota' = quota - 1
  /\ LET rec == Begin("serve_cached", filename)
     IN  IF Exists(cache[filename])
           THEN /\ th' = [ th EXCEPT ![t] = [ rec EXCEPT !.pc = "sc_send" ] ]
                /\ UNCHANGED hist
           ELSE Finish(t, rec, 404, src, cache)
  /\ UNCHANGED << dir_exists, src, cache, nenv >>

\* line 173: send_file reads the file as it is now; if it is gone the
\* error is not handled and the answer is 500
ServeCachedSend(t) ==
  /\ th[t].pc = "sc_send"
  /\ LET rec == th[t]
         e   == cache[rec.filename]
     IN  IF Exists(e)
           THEN Finish(t, [ rec EXCEPT !.observed = e.st ], 200, src, cache)
           ELSE Finish(t, rec, 500, src, cache)
  /\ UNCHANGED << dir_exists, src, cache, quota, nenv >>

\* lines 181-182, 185
StartServeFull(t, filename) ==
  /\ CanStart(t)
  /\ quota' = quota - 1
  /\ LET rec == Begin("serve_full", filename)
     IN  IF src[filename] # "absent"
           THEN /\ th' = [ th EXCEPT ![t] = [ rec EXCEPT !.pc = "sf_send" ] ]
                /\ UNCHANGED hist
           ELSE Finish(t, rec, 404, src, cache)
  /\ UNCHANGED << dir_exists, src, cache, nenv >>

\* line 183
ServeFullSend(t) ==
  /\ th[t].pc = "sf_send"
  /\ LET rec == th[t]
         c   == src[rec.filename]
     IN  IF c # "absent"
           THEN Finish(t, [ rec EXCEPT !.observed = c ], 200, src, cache)
           ELSE Finish(t, rec, 500, src, cache)
  /\ UNCHANGED << dir_exists, src, cache, quota, nenv >>

(***************************************************************************)
(* GET /, lines 88-166.                                                    *)
(***************************************************************************)
\* line 91: int(request.args.get('page', 1))
PageOf(page_arg) == IF page_arg.has THEN ParseInt(page_arg.val)
                                    ELSE [ ok |-> TRUE, val |-> 1 ]

\* lines 92, 96-97
SizeOf(size_arg) ==
  LET size == ArgGet(size_arg, MEDIUM)
  IN  IF size \in SizeKeys THEN size ELSE MEDIUM

\* lines 91-130: the arguments are read, the directory is listed and the
\* page is cut out; a page that is no integer is an unhandled ValueError
StartIndex(t, page_arg, size_arg, page_size_arg) ==
  /\ CanStart(t)
  /\ quota' = quota - 1
  /\ LET rec0  == [ Begin("index", << >>) EXCEPT
                      !.page_arg = page_arg, !.size_arg = size_arg,
                      !.page_size_arg = page_size_arg ]
         page  == PageOf(page_arg)
         ipp   == NormalizePageSize(
                    ArgGet(page_size_arg,
                           << "1", "2" >>))
         files == GetImageFiles(dir_exists, src)
         pg    == Paginate(files, page.val, ipp)
         rec   == [ rec0 EXCEPT
                      !.size = SizeOf(size_arg), !.ipp = ipp,
                      !.image_files = files,
                      !.total_images = Len(files),
                      !.total_pages = pg.total_pages, !.page = pg.page,
                      !.page_images = pg.page_images,
                      !.idx = 1, !.pc = "i_loop" ]
     IN  IF ~page.ok THEN Finish(t, rec0, 500, src, cache)
         ELSE IF rec.page_images = << >>
           THEN Finish(t, rec, 200, src, cache)
           ELSE /\ th' = [ th EXCEPT ![t] = rec ]
                /\ UNCHANGED hist
  /\ UNCHANGED << dir_exists, src, cache, nenv >>

\* lines 134-138: the next file of the page; it is skipped if it is gone,
\* else its thumbnail is resolved
IndexLoop(t) ==
  /\ th[t].pc = "i_loop"
  /\ LET rec      == th[t]
         filename == rec.page_images[rec.idx]
         skip     == [ rec EXCEPT !.idx = @ + 1 ]
     IN  IF src[filename] # "absent"
           THEN /\ th' = [ th EXCEPT ![t] =
                             [ rec EXCEPT
                                 !.r = Frame(filename, rec.size, "index", cache),
                                 !.pc = "r_check" ] ]
                /\ UNCHANGED hist
           ELSE IF skip.idx > Len(skip.page_images)
             THEN Finish(t, skip, 200, src, cache)
             ELSE /\ th' = [ th EXCEPT ![t] = skip ]
                  /\ UNCHANGED hist
  /\ UNCHANGED << dir_exists, src, cache, quota, nenv >>

(***************************************************************************)
(* GET /view/<filename>, lines 208-283.                                    *)
(***************************************************************************)
\* list.index(x) as a 1-based position; x is in the list
IndexOf(s, x) == CHOOSE i \in 1..Len(s) : s[i] = x

\* line 222 with the mutation "the element before the first is the last"
PrevOfWraps(image_files, i) ==
  IF i > 1 THEN Arg(image_files[i - 1])
           ELSE Arg(image_files[Len(image_files)])

\* line 222: the name before position i (1-based), None for the first
PrevOf(image_files, i) ==
  IF i > 1 THEN Arg(image_files[i - 1]) ELSE NoArg

\* line 223: the name after position i (1-based), None for the last
NextOf(image_files, i) ==
  IF i < Len(image_files) THEN Arg(image_files[i + 1]) ELSE NoArg

\* lines 212-231: the directory is listed, the file is looked up in the
\* listing and its neighbours are determined
StartView(t, filename, size_arg) ==
  /\ CanStart(t)
  /\ quota' = quota - 1
  /\ \E files \in { GetImageFiles(dir_exists, src) } :
       LET rec0  == [ Begin("view", filename) EXCEPT
                        !.size_arg = size_arg, !.image_files = files,
                        !.total_images = Len(files) ]
           found == \E i \in 1..Len(files) : files[i] = filename
           i     == IndexOf(files, filename)
           rec   == [ rec0 EXCEPT
                        !.current_index = i - 1,
                        !.prev_filename = PrevOf(files, i),
                        !.next_filename = NextOf(files, i),
                        !.size = SizeOf(size_arg), !.pc = "v_prev" ]
       IN  IF ~found
             THEN Finish(t, rec0, 404, src, cache)
             ELSE /\ th' = [ th EXCEPT ![t] = rec ]
                  /\ UNCHANGED hist
  /\ UNCHANGED << dir_exists, src, cache, nenv >>

\* lines 234-238: the thumbnail of the previous image is resolved if there
\* is a previous image and its file exists
ViewPrev(t) ==
  /\ th[t].pc = "v_prev"
  /\ LET rec == th[t]
     IN  th' = [ th EXCEPT ![t] =
                   IF rec.prev_filename.has
                      /\ src[rec.prev_filename.val] # "absent"
                     THEN [ rec EXCEPT
                              !.r = Frame(rec.prev_filename.val, rec.size,
                                          "view_prev", cache),
                              !.pc = "r_check" ]
                     ELSE [ rec EXCEPT !.pc = "v_next" ] ]
  /\ UNCHANGED << dir_exists, src, cache, hist, quota, nenv >>

\* lines 245-249: the same for the next image
ViewNext(t) ==
  /\ th[t].pc = "v_next"
  /\ LET rec == th[t]
     IN  th' = [ th EXCEPT ![t] =
                   IF rec.next_filename.has
                      /\ src[rec.next_filename.val] # "absent"
                     THEN [ rec EXCEPT
                              !.r = Frame(rec.next_filename.val, rec.size,
                                          "view_next", cache),
                              !.pc = "r_check" ]
                     ELSE [ rec EXCEPT !.pc = "v_current" ] ]
  /\ UNCHANGED << dir_exists, src, cache, hist, quota, nenv >>

\* lines 260-261: the thumbnail of the image itself is resolved, whether or
\* not its file still exists
ViewCurrent(t) ==
  /\ th[t].pc = "v_current"
  /\ th' = [ th EXCEPT ![t] =
               [ th[t] EXCEPT
                   !.r = Frame(th[t].filename, th[t].size, "view_current",
                               cache),
                   !.pc = "r_check" ] ]
  /\ UNCHANGED << dir_exists, src, cache, hist, quota, nenv >>

(***************************************************************************)
(* The user changes a source file in place, or adds it.                    *)
(***************************************************************************)
EnvWrite(name, content) ==
  /\ nenv < MaxEnvSteps
  /\ dir_exists
  /\ src[name] # content
  /\ src' = [ src EXCEPT ![name] = content ]
  /\ nenv' = nenv + 1
  /\ UNCHANGED << dir_exists, cache, th, hist, quota >>

(***************************************************************************)
(* The gallery of the request specifications: three files, two of which    *)
(* differ only in their extension.                                         *)
(***************************************************************************)
A_JPG == << "a", ".", "j", "p", "g" >>
A_PNG == << "a", ".", "p", "n", "g" >>
B_GIF == << "B", ".", "g", "i", "f" >>

Names == { A_JPG, A_PNG, B_GIF }

\* the cache filenames of a set of names
CacheNames(names) ==
  { CacheFilename(n, k) : n \in names, k \in SizeKeys }

HUGE == << "h", "u", "g", "e" >>

\* the query strings of GET / that the request specifications issue
IndexArgs ==
  { << NoArg, NoArg, NoArg >>,
    << Arg(<< "2" >>), Arg(SMALL), Arg(<< "2", "5" >>) >>,
    << NoArg, Arg(HUGE), Arg(ALL) >>,
    << Arg(<< "x" >>), Arg(LARGE), NoArg >> }

\* the files when the server starts: any sources, and in CACHE_DIR any
\* thumbnails that earlier runs left
InitFiles ==
  /\ dir_exists \in BOOLEAN
  /\ src \in [ Names -> { "absent", "v1", "corrupt" } ]
  /\ src[A_PNG] # "corrupt" /\ src[B_GIF] # "corrupt"
  /\ ~dir_exists => \A n \in Names : src[n] = "absent"
  /\ cache \in [ CacheNames(Names) -> { NoFile, Thumb("v1") } ]
  /\ \A k \in SizeKeys : cache[CacheFilename(B_GIF, k)] = NoFile

InitCounters ==
  /\ hist = << >>
  /\ nenv = 0

\* one request at a time
Init ==
  /\ InitFiles
  /\ InitCounters
  /\ th = [ t \in { 1 } |-> Idle ]
  /\ quota = MaxRequests

\* the files when two requests race: a.jpg is there, and its thumbnails
\* are all cached or none is
ConcInitFiles ==
  /\ dir_exists = TRUE
  /\ src \in [ Names -> { "absent", "v1" } ]
  /\ src[A_JPG] = "v1"
  /\ cache \in { [ f \in CacheNames(Names) |-> NoFile ],
                 [ f \in CacheNames(Names) |->
                     IF f \in CacheNames({ A_JPG }) THEN Thumb("v1")
                                                    ELSE NoFile ] }

\* two requests at a time, one per thread
ConcInit ==
  /\ ConcInitFiles
  /\ InitCounters
  /\ th = [ t \in { 1, 2 } |-> Idle ]
  /\ quota = 2

Start(t) ==
  \/ \E n \in Names, k \in SizeKeys, times \in { 1, 2 } :
        StartResolve(t, n, k, times)
  \/ \E n \in Names : StartDelete(t, n)
  \/ \E f \in CacheNames(Names) : StartServeCached(t, f)
  \/ \E n \in Names : StartServeFull(t, n)
  \/ \E a \in IndexArgs : StartIndex(t, a[1], a[2], a[3])

\* the requests that race: they meet at the medium thumbnail of a.jpg and
\* a.png
ConcStart(t) ==
  \/ \E n \in { A_JPG, A_PNG }, times \in { 1, 2 } :
        StartResolve(t, n, MEDIUM, times)
  \/ \E n \in { A_JPG, A_PNG } : StartDelete(t, n)
  \/ StartServeCached(t, CacheFilename(A_JPG, MEDIUM))
  \/ StartServeFull(t, A_JPG)
  \/ StartIndex(t, NoArg, NoArg, NoArg)
  \/ StartView(t, A_JPG, NoArg)

Step(t) ==
  \/ RCheck(t)
  \/ RDecode(t)
  \/ RSaveOpen(t)
  \/ RSaveWrite(t)
  \/ DRemoveSrc(t)
  \/ DCache(t)
  \/ ServeCachedSend(t)
  \/ ServeFullSend(t)
  \/ IndexLoop(t)

\* the steps of the viewer
ViewStep(t) ==
  \/ ViewPrev(t)
  \/ ViewNext(t)
  \/ ViewCurrent(t)

Env == \E n \in Names, c \in { "v1", "v2", "corrupt" } : EnvWrite(n, c)

\* the server handles one request at a time
Next == \E t \in { 1 } : Start(t) \/ Step(t)

\* the server handles two requests at a time
ConcNext == \E t \in { 1, 2 } : ConcStart(t) \/ Step(t) \/ ViewStep(t)

Spec == Init /\ [][Next]_vars

ConcSpec == ConcInit /\ [][ConcNext]_vars

(***************************************************************************)
(* The edit specification: two requests, one after the other, on a.jpg,    *)
(* a.png and B.gif; between the requests the user may change source files  *)
(* in place, or add them.                                                  *)
(***************************************************************************)
EditInit ==
  /\ dir_exists = TRUE
  /\ src \in [ Names -> { "absent", "v1", "corrupt" } ]
  /\ src[A_JPG] # "absent" /\ src[A_PNG] # "corrupt" /\ src[B_GIF] = "v1"
  /\ cache = [ f \in CacheNames(Names) |-> NoFile ]
  /\ InitCounters
  /\ th = [ t \in { 1 } |-> Idle ]
  /\ quota = 2

\* the requests of the edit specification: they meet at the medium
\* thumbnail of a.jpg and a.png
EditStart(t) ==
  \/ \E n \in { A_JPG, A_PNG } : StartResolve(t, n, MEDIUM, 1)
  \/ \E n \in { A_JPG, A_PNG } : StartDelete(t, n)
  \/ StartServeCached(t, CacheFilename(A_JPG, MEDIUM))
  \/ StartServeFull(t, A_JPG)
  \/ StartIndex(t, NoArg, NoArg, NoArg)
  \/ StartView(t, A_JPG, NoArg)

\* the user edits while no request is in progress
EditNext ==
  \/ \E t \in { 1 } : EditStart(t) \/ Step(t) \/ ViewStep(t)
  \/ (\A t \in DOMAIN th : th[t].op = "idle") /\ Env

EditSpec == EditInit /\ [][EditNext]_vars

(***************************************************************************)
(* The pagination specification: one GET / with any of the query strings   *)
(* below, on a directory of 0..MaxFiles images whose medium thumbnails     *)
(* (the size the requests ask for) are cached.                             *)
(***************************************************************************)
\* the i-th file of the directory: 01.jpg, 02.jpg, ...
PageName(i) ==
  << ASCII[Ord["0"] + (i \div 10)], ASCII[Ord["0"] + (i % 10)],
     ".", "j", "p", "g" >>

PageNames(n) == { PageName(i) : i \in 1..n }

\* values of the query parameter page
PageTokens ==
  { NoArg, Arg(<< "1" >>), Arg(<< "2" >>), Arg(<< "3" >>), Arg(<< "0" >>),
    Arg(<< "-", "5" >>), Arg(<< "1", "0", "0" >>), Arg(<< "x" >>) }

\* values of the query parameter page_size
PageSizeTokens ==
  { NoArg, Arg(ALL), Arg(<< "A", "L", "L" >>),
    Arg(<< "1", "2" >>), Arg(<< "2", "5" >>), Arg(<< "5", "0" >>),
    Arg(<< "1", "0", "0" >>), Arg(<< "2", "5", "0" >>),
    Arg(<< "1" >>), Arg(<< "0" >>), Arg(<< "-", "2", "5" >>),
    Arg(<< "1", "3" >>), Arg(<< "+", "2", "5" >>), Arg(<< " ", "2", "5" >>),
    Arg(<< "2", "_", "5" >>), Arg(<< "2", "5", ".", "0" >>),
    Arg(<< "a", "b", "c" >>), Arg(<< >>) }

PageInit ==
  /\ dir_exists = TRUE
  /\ \E n \in 0..MaxFiles :
       /\ src = [ f \in PageNames(n) |-> "v1" ]
       /\ cache = [ f \in { CacheFilename(g, MEDIUM) : g \in PageNames(n) }
                     |-> Thumb("v1") ]
  /\ InitCounters
  /\ th = [ t \in { 1 } |-> Idle ]
  /\ quota = 1

PageStart(t) ==
  \E p \in PageTokens, ps \in PageSizeTokens : StartIndex(t, p, NoArg, ps)

PageNext == \E t \in { 1 } : PageStart(t) \/ IndexLoop(t) \/ RCheck(t)

PageSpec == PageInit /\ [][PageNext]_vars

(***************************************************************************)
(* The listing specification: one GET /view/<filename> on a directory      *)
(* that holds up to MaxListed of the files below, with a cold or a warm    *)
(* cache.                                                                  *)
(***************************************************************************)
B_PNG == << "B", ".", "p", "n", "g" >>
C_GIF == << "c", ".", "g", "i", "f" >>
C_GIF_UPPER == << "c", ".", "G", "I", "F" >>
D_JPEG == << "d", ".", "j", "p", "e", "g" >>
E_WEBP == << "e", ".", "w", "e", "b", "p" >>
F_BMP_UPPER == << "f", ".", "B", "M", "P" >>
DOT_PNG == << ".", "p", "n", "g" >>
N_TXT == << "n", ".", "t", "x", "t" >>
JPG_NO_DOT == << "j", "p", "g" >>
G_JPG_TXT == << "g", ".", "j", "p", "g", ".", "t", "x", "t" >>

\* the files a directory of ListSpec is made of
ListNames ==
  { A_JPG, A_PNG, B_PNG, C_GIF, C_GIF_UPPER, D_JPEG, E_WEBP, F_BMP_UPPER,
    DOT_PNG, N_TXT, JPG_NO_DOT, G_JPG_TXT }

ListInit ==
  /\ dir_exists \in BOOLEAN
  /\ src \in [ ListNames -> { "absent", "v1" } ]
  /\ Cardinality({ n \in ListNames : src[n] # "absent" }) <= MaxListed
  /\ ~dir_exists => \A n \in ListNames : src[n] = "absent"
  /\ LET keys == CacheNames({ n \in ListNames : src[n] # "absent" })
     IN  cache \in { [ f \in keys |-> NoFile ], [ f \in keys |-> Thumb("v1") ] }
  /\ InitCounters
  /\ th = [ t \in { 1 } |-> Idle ]
  /\ quota = 1

ListStart(t) ==
  \E n \in ListNames, size_arg \in { NoArg, Arg(SMALL), Arg(HUGE) } :
     StartView(t, n, size_arg)

ListNext ==
  \E t \in { 1 } :
     \/ ListStart(t)
     \/ ViewStep(t)
     \/ RCheck(t)
     \/ RDecode(t)
     \/ RSaveOpen(t)
     \/ RSaveWrite(t)

ListSpec == ListInit /\ [][ListNext]_vars

(***************************************************************************)
(* The frame specification: one GET / for page 1 or 2 in any tier, on a    *)
(* directory of one file more than a page holds, 01.jpg, 02.jpg, ..., with *)
(* a cold cache or with the thumbnails of every second file cached.        *)
(***************************************************************************)
\* the number of files: page 1 is full and page 2 holds one file
FrameFiles == IMAGES_PER_PAGE + 1

FrameInit ==
  /\ dir_exists = TRUE
  /\ src = [ f \in PageNames(FrameFiles) |-> "v1" ]
  /\ cache \in
       { [ f \in CacheNames(PageNames(FrameFiles)) |-> NoFile ],
         [ f \in CacheNames(PageNames(FrameFiles)) |->
             IF \E i \in 1..FrameFiles, k \in SizeKeys :
                   i % 2 = 0 /\ f = CacheFilename(PageName(i), k)
               THEN Thumb("v1") ELSE NoFile ] }
  /\ InitCounters
  /\ th = [ t \in { 1 } |-> Idle ]
  /\ quota = 1

FrameStart(t) ==
  \E p \in { NoArg, Arg(<< "2" >>) }, sz \in { NoArg, Arg(SMALL), Arg(LARGE) } :
     StartIndex(t, p, sz, NoArg)

FrameNext ==
  \E t \in { 1 } :
     \/ FrameStart(t)
     \/ IndexLoop(t)
     \/ RCheck(t)
     \/ RDecode(t)
     \/ RSaveOpen(t)
     \/ RSaveWrite(t)

FrameSpec == FrameInit /\ [][FrameNext]_vars

(***************************************************************************)
(* Properties.  Latest is the request that finished last, with the files   *)
(* as they were when it started (pre_src, pre_cache) and when it answered  *)
(* (post_src, post_cache).                                                 *)
(***************************************************************************)
Finished(op) == hist # << >> /\ hist[1].req.op = op

Latest == hist[1].req

\* the cache filenames <base>_small.jpg, <base>_medium.jpg, <base>_large.jpg
\* of a filename, spelled out
TierFiles(filename) ==
  LET base == SplitExt(filename)[1]
  IN  { base \o << "_", "s", "m", "a", "l", "l", ".", "j", "p", "g" >>,
        base \o << "_", "m", "e", "d", "i", "u", "m", ".", "j", "p", "g" >>,
        base \o << "_", "l", "a", "r", "g", "e", ".", "j", "p", "g" >> }

\* C1: a delete of an existing image answers 204 unless a removal fails
\* (then 500), and after a 204 the source file is absent and none of
\* <base>_small.jpg, <base>_medium.jpg, <base>_large.jpg exists, whichever
\* of them existed before.
C1_DeleteRemovesAll ==
  (Finished("delete") /\ Latest.pre_src[Latest.filename] # "absent") =>
     /\ Latest.status \in { 204, 500 }
     /\ ~Latest.faulted => Latest.status = 204
     /\ Latest.status = 204 =>
          /\ hist[1].post_src[Latest.filename] = "absent"
          /\ \A f \in TierFiles(Latest.filename) :
               hist[1].post_cache[f].st = "absent"

\* a delete answered 204 where exactly the small and the large thumbnail
\* existed before
C1_Witness ==
  /\ Finished("delete")
  /\ Latest.status = 204
  /\ Latest.filename = A_JPG
  /\ Latest.pre_src[A_JPG] = "v1"
  /\ { f \in TierFiles(A_JPG) : Latest.pre_cache[f].st # "absent" }
       = { CacheFilename(A_JPG, SMALL), CacheFilename(A_JPG, LARGE) }
  /\ \A f \in TierFiles(A_JPG) : cache[f].st = "absent"

\* C2: a delete of a filename without a source file answers 404 and
\* changes no source file and no cache entry.
C2_DeleteMissingNoEffect ==
  (Finished("delete") /\ Latest.pre_src[Latest.filename] = "absent") =>
     /\ Latest.status = 404
     /\ hist[1].post_src = Latest.pre_src
     /\ hist[1].post_cache = Latest.pre_cache

\* a delete of the missing a.jpg answered 404 while a_small.jpg is cached
C2_Witness ==
  /\ Finished("delete")
  /\ Latest.filename = A_JPG
  /\ Latest.pre_src[A_JPG] = "absent"
  /\ Latest.status = 404
  /\ cache[CacheFilename(A_JPG, SMALL)].st = "v1"

\* the calls of resize_and_cache_image of the last two requests, in order
CallLog ==
  IF hist = << >> THEN << >>
  ELSE IF Len(hist) = 1 THEN hist[1].req.calls
  ELSE hist[2].req.calls \o hist[1].req.calls

\* C3: of two successive calls with the same (source, tier), the first of
\* which returned a path, the second returns the same path, is a cache hit
\* that neither decodes nor opens the cache file for writing, and leaves
\* the cache file as the first call left it.
C3_ResolveIdempotent ==
  \A i \in 1..(Len(CallLog) - 1) :
    LET c1 == CallLog[i]
        c2 == CallLog[i + 1]
    IN  (c1.path = c2.path /\ c1.size_key = c2.size_key /\ c1.result.has) =>
          /\ c2.result = c1.result
          /\ c2.hit /\ ~c2.decoded /\ ~c2.opened
          /\ c2.after = c1.after

\* two calls in succession of which the first generated the thumbnail
C3_Witness ==
  /\ Finished("resolve")
  /\ Len(Latest.calls) = 2
  /\ Latest.calls[1].decoded /\ Latest.calls[1].opened
  /\ Latest.calls[1].result.has
  /\ Latest.calls[2].hit
  /\ Latest.calls[2].result = Arg(CacheFilename(Latest.filename, Latest.size))

\* C4: a call for a missing or corrupt source returns None, and after any
\* call that returned None (decode, resize or encode error) no file is at
\* the key's cache path when it returns.
C4_FailureLeavesNoFile ==
  hist # << >> =>
    \A i \in 1..Len(Latest.calls) :
      LET c == Latest.calls[i]
      IN  /\ (c.decoded /\ Latest.pre_src[c.path] \notin Pictures) =>
                ~c.result.has
          /\ ~c.result.has => c.after.st = "absent"

\* a listing during which the call for the corrupt a.jpg failed to decode
\* and the call for B.gif failed while saving
C4_Witness ==
  /\ Finished("index")
  /\ Latest.pre_src[A_JPG] = "corrupt"
  /\ \E i, j \in 1..Len(Latest.calls) :
       /\ Latest.calls[i].path = A_JPG
       /\ Latest.calls[i].decoded /\ ~Latest.calls[i].opened
       /\ ~Latest.calls[i].result.has
       /\ Latest.calls[j].path = B_GIF
       /\ Latest.calls[j].opened
       /\ ~Latest.calls[j].result.has

\* C5: no reader of a cache path (GET /cache/<filename>, or a call of
\* resize_and_cache_image that finds the file) finds a file that is not
\* completely written.
C5_NoPartialRead ==
  \A i \in 1..Len(hist) :
    /\ (hist[i].req.op = "serve_cached" /\ hist[i].req.status = 200) =>
          hist[i].req.observed # "partial"
    /\ \A j \in 1..Len(hist[i].req.calls) :
          hist[i].req.calls[j].hit => hist[i].req.calls[j].seen # "partial"

(***************************************************************************)
(* Properties of the pagination, over the listing (GET /) that finished    *)
(* last.                                                                   *)
(***************************************************************************)
\* the listing was rendered
Listed == Finished("index") /\ Latest.status = 200

\* the page numbers that the values of PageTokens stand for
RequestedPage ==
  LET a == Latest.page_arg
  IN  IF ~a.has \/ a.val = << "1" >> THEN 1
      ELSE IF a.val = << "2" >> THEN 2
      ELSE IF a.val = << "3" >> THEN 3
      ELSE IF a.val = << "0" >> THEN 0
      ELSE IF a.val = << "-", "5" >> THEN 0 - 5
      ELSE 100

\* C6: every listing has totalPages >= 1, also of an empty directory, and
\* 1 <= page <= totalPages; a page number out of range (zero, negative, too
\* large) is clamped and the listing is rendered, never rejected.
C6_PageInRange ==
  /\ Listed =>
       /\ Latest.total_pages >= 1
       /\ 1 <= Latest.page /\ Latest.page <= Latest.total_pages
  /\ (Finished("index") /\ Latest.page_arg # Arg(<< "x" >>)) =>
       Latest.status = 200

\* page 100 of an empty directory is page 1 of 1
C6_Witness ==
  /\ Listed
  /\ Latest.total_images = 0
  /\ Latest.page_arg = Arg(<< "1", "0", "0" >>)
  /\ ~Latest.ipp.all
  /\ Latest.page = 1 /\ Latest.total_pages = 1

\* C7: with a numeric page size ps, totalPages is the least k >= 1 with
\* k * ps >= totalCount, the page is the requested one clamped to
\* 1..totalPages, and the page slice is the elements of the list at the
\* (0-based) indices [(page-1)*ps, page*ps) that the list has, in order;
\* 10 files with page 1 and page size 25 give all 10 files on page 1 of 1.
C7_NumericPagination ==
  (Listed /\ ~Latest.ipp.all) =>
    LET ps    == Latest.ipp.n
        n     == Len(Latest.image_files)
        tp    == Latest.total_pages
        pg    == Latest.page
        first == (pg - 1) * ps
        idxs  == { i \in 0..(n - 1) : first <= i /\ i < pg * ps }
    IN  /\ ps >= 1
        /\ n = Latest.total_images
        /\ tp >= 1 /\ tp * ps >= n /\ (tp > 1 => (tp - 1) * ps < n)
        /\ pg = IF RequestedPage < 1 THEN 1
                ELSE IF RequestedPage > tp THEN tp ELSE RequestedPage
        /\ Len(Latest.page_images) = Cardinality(idxs)
        /\ \A k \in 1..Len(Latest.page_images) :
             Latest.page_images[k] = Latest.image_files[first + k]
        /\ (n = 10 /\ RequestedPage = 1 /\ ps = 25) =>
             /\ tp = 1 /\ pg = 1
             /\ Latest.page_images = Latest.image_files

\* page 2 of 26 files with page size 25 holds the 26th file only
C7_Witness ==
  /\ Listed
  /\ Latest.ipp = [ all |-> FALSE, n |-> 25 ]
  /\ Latest.total_images = 26
  /\ Latest.page_arg = Arg(<< "2" >>)
  /\ Latest.page = 2 /\ Latest.total_pages = 2
  /\ Latest.page_images = << PageName(26) >>

\* the listing asked for page size 1 in a directory of 10 files
TenFilesPageSizeOne ==
  /\ Listed
  /\ Latest.total_images = 10
  /\ Latest.page_size_arg = Arg(<< "1" >>)

\* C8 as stated: with 10 files and page size 1, page 2 returns the 2nd file
\* only and page 100 is clamped to page 10 and returns the 10th file only.
C8_OneFilePages ==
  TenFilesPageSizeOne =>
    /\ RequestedPage = 2 =>
         /\ Latest.page = 2
         /\ Latest.page_images = << Latest.image_files[2] >>
    /\ RequestedPage = 100 =>
         /\ Latest.page = 10
         /\ Latest.page_images = << Latest.image_files[10] >>

\* C8, amended: a requested page size of 1 is not an allowed size and is
\* replaced by 12, so with 10 files page 2 and page 100 are both clamped to
\* page 1 of 1, which holds all 10 files.
C8_PageSizeOneCoerced ==
  (TenFilesPageSizeOne /\ RequestedPage \in { 2, 100 }) =>
    /\ Latest.ipp = [ all |-> FALSE, n |-> 12 ]
    /\ Latest.total_pages = 1
    /\ Latest.page = 1
    /\ Len(Latest.page_images) = 10
    /\ Latest.page_images = Latest.image_files

\* page 100 with page size 1 of 10 files was listed
C8_Witness ==
  /\ TenFilesPageSizeOne
  /\ RequestedPage = 100
  /\ Latest.page = 1
  /\ Len(Latest.page_images) = 10

\* the integers that values of the query parameter page_size stand for
\* (int() accepts a sign, surrounding blanks and single underscores)
PageSizeInt ==
  LET v == ArgGet(Latest.page_size_arg, << "1", "2" >>)
  IN  IF v \in { << "1", "2" >> } THEN 12
      ELSE IF v \in { << "2", "5" >>, << "+", "2", "5" >>,
                      << " ", "2", "5" >>, << "2", "_", "5" >> } THEN 25
      ELSE IF v = << "5", "0" >> THEN 50
      ELSE IF v = << "1", "0", "0" >> THEN 100
      ELSE IF v = << "2", "5", "0" >> THEN 250
      ELSE IF v = << "1" >> THEN 1
      ELSE IF v = << "0" >> THEN 0
      ELSE IF v = << "1", "3" >> THEN 13
      ELSE IF v = << "-", "2", "5" >> THEN 0 - 25
      ELSE 0 - 1

\* whether the value of page_size is an integer literal
PageSizeIsInt ==
  ArgGet(Latest.page_size_arg, << "1", "2" >>)
    \notin { ALL, << "A", "L", "L" >>, << "2", "5", ".", "0" >>,
             << "a", "b", "c" >>, << >> }

\* C9: page_size 'all' selects show-all; an integer in {25, 50, 100, 250}
\* is used as given; every other integer and every value that is no
\* integer becomes 12: the effective page size is one of 12, 25, 50, 100,
\* 250 or 'all'.
C9_PageSizeNormalised ==
  Listed =>
    LET v == ArgGet(Latest.page_size_arg, << "1", "2" >>)
    IN  /\ (v = ALL) = Latest.ipp.all
        /\ ~Latest.ipp.all => Latest.ipp.n \in { 12, 25, 50, 100, 250 }
        /\ (PageSizeIsInt /\ PageSizeInt \in { 25, 50, 100, 250 }) =>
             Latest.ipp = [ all |-> FALSE, n |-> PageSizeInt ]
        /\ (v # ALL /\ ~(PageSizeIsInt /\ PageSizeInt \in { 25, 50, 100, 250 }))
             => Latest.ipp = [ all |-> FALSE, n |-> 12 ]

\* page_size=13 was listed 12 to the page
C9_Witness ==
  /\ Listed
  /\ Latest.page_size_arg = Arg(<< "1", "3" >>)
  /\ Latest.ipp = [ all |-> FALSE, n |-> 12 ]
  /\ Latest.total_images = 13
  /\ Latest.total_pages = 2

\* C10: with page_size 'all' the listing has totalPages = 1 and page = 1
\* and the page slice is the whole list, whatever page is requested.
C10_ShowAll ==
  (Listed /\ Latest.page_size_arg = Arg(ALL)) =>
    /\ Latest.total_pages = 1
    /\ Latest.page = 1
    /\ Latest.page_images = Latest.image_files
    /\ Len(Latest.page_images) = Cardinality(DOMAIN Latest.pre_src)

\* page 3 of 26 files with page_size=all is page 1 with the 26 files
C10_Witness ==
  /\ Listed
  /\ Latest.page_size_arg = Arg(ALL)
  /\ Latest.page_arg = Arg(<< "3" >>)
  /\ Latest.page = 1
  /\ Len(Latest.page_images) = 26

(***************************************************************************)
(* Properties of the listing and of the viewer, over the request           *)
(* GET /view/<filename> that finished last in ListSpec.                    *)
(***************************************************************************)
\* the names of ListNames that end in an image extension when lowercased,
\* in ascending order of their code points ("." < "B" < "G" < "a" < "g")
ExpectedOrder ==
  << DOT_PNG, B_PNG, A_JPG, A_PNG, C_GIF_UPPER, C_GIF, D_JPEG, E_WEBP,
     F_BMP_UPPER >>

\* the file was in the directory when the latest request started
PresentBefore(n) == Latest.pre_src[n] # "absent"

\* the listing expected of the directory of the latest request
ExpectedListing == SelectSeq(ExpectedOrder, PresentBefore)

\* the pairs of names of ListNames that differ only in their extension
CollidingPairs == { { A_JPG, A_PNG }, { C_GIF, C_GIF_UPPER } }

SameBase(n1, n2) == n1 = n2 \/ { n1, n2 } \in CollidingPairs

\* the files of the directory
InDirectory == { n \in DOMAIN src : src[n] # "absent" }

\* C12: names that differ only in their extension have the same cache
\* filename for each tier, so that once a call for one of them returned a
\* cached file, a call for the other at the same tier returns the same file
\* without decoding its own source; names with different base names, and
\* different tiers, have different cache filenames (computed for the files
\* of every directory before the request starts, and for the calls made).
C12_ExtensionCollision ==
  /\ quota > 0 =>
       \A n1 \in InDirectory, n2 \in InDirectory,
          k1 \in SizeKeys, k2 \in SizeKeys :
            (CacheFilename(n1, k1) = CacheFilename(n2, k2))
               <=> (SameBase(n1, n2) /\ k1 = k2)
  /\ Finished("view") =>
       \A i \in 1..Len(Latest.calls), j \in 1..Len(Latest.calls) :
          LET c1 == Latest.calls[i]
              c2 == Latest.calls[j]
          IN  /\ (c1.key = c2.key) <=> SameBase(c1.path, c2.path)
              /\ (i < j /\ c1.path # c2.path /\ SameBase(c1.path, c2.path)
                   /\ c1.result.has) =>
                    /\ c2.result = c1.result
                    /\ c2.hit /\ ~c2.decoded
                    /\ c2.after = c1.after

\* the viewer of a.png on a cold cache made the thumbnail of a.jpg, the
\* previous image, and returned it as the thumbnail of a.png
C12_Witness ==
  /\ Finished("view")
  /\ Latest.filename = A_PNG
  /\ Len(Latest.calls) = 2
  /\ Latest.calls[1].path = A_JPG
  /\ Latest.calls[1].decoded /\ Latest.calls[1].result.has
  /\ Latest.calls[2].path = A_PNG
  /\ Latest.calls[2].hit /\ ~Latest.calls[2].decoded
  /\ Latest.current_thumb_url = Latest.prev_thumb_url
  /\ Latest.current_thumb_url.route = "cache"

\* C14: GET /view/<filename> answers 404 when filename is not in the sorted
\* listing; else it is rendered with prev the element before filename in
\* the listing (None for the first), next the element after it (None for
\* the last) and the position (current_index + 1) its 1-based index out of
\* the length of the listing.
C14_ViewNeighbours ==
  Finished("view") =>
    LET L   == ExpectedListing
        pos == { i \in 1..Len(L) : L[i] = Latest.filename }
    IN  /\ Latest.status \in { 200, 404 }
        /\ (pos = {}) <=> (Latest.status = 404)
        /\ \A i \in pos :
             /\ Latest.prev_filename = IF i = 1 THEN NoArg ELSE Arg(L[i - 1])
             /\ Latest.next_filename =
                  IF i = Len(L) THEN NoArg ELSE Arg(L[i + 1])
             /\ Latest.current_index + 1 = i
             /\ Latest.total_images = Len(L)

\* the viewer of the second of three images
C14_Witness ==
  /\ Finished("view")
  /\ Latest.status = 200
  /\ Latest.filename = A_JPG
  /\ Latest.prev_filename = Arg(B_PNG)
  /\ Latest.next_filename = Arg(C_GIF_UPPER)
  /\ Latest.current_index + 1 = 2
  /\ Latest.total_images = 3

\* C16: get_image_files returns exactly the names of the directory whose
\* lowercased name ends in .png, .jpg, .jpeg, .gif, .bmp or .webp, each
\* once, in ascending case-sensitive order (uppercase before lowercase);
\* other files are left out and a directory that does not exist gives the
\* empty list.
C16_ListingFilterSorted ==
  Finished("view") =>
    /\ Latest.image_files = ExpectedListing
    /\ ~dir_exists => Latest.image_files = << >>

\* a.jpg, B.png and g.jpg.txt are listed as B.png, a.jpg
C16_Witness ==
  /\ Finished("view")
  /\ { n \in ListNames : PresentBefore(n) } = { A_JPG, B_PNG, G_JPG_TXT }
  /\ Latest.image_files = << B_PNG, A_JPG >>

(***************************************************************************)
(* Properties of the records of a listing and of the files that requests   *)
(* leave alone.                                                            *)
(***************************************************************************)
\* the base names of the files of the gallery, spelled out
Stem == (A_JPG :> << "a" >>) @@ (A_PNG :> << "a" >>) @@ (B_GIF :> << "B" >>)

\* the file was in the directory when the latest request answered
PresentAfter(n) == hist[1].post_src[n] # "absent"

\* C15: a listing is rendered also when thumbnails fail; every file of the
\* page slice that exists yields exactly one record, in listing order; the
\* record's thumbnail URL is /cache/<base>_<tier>.jpg when the resolution
\* of its thumbnail returned a path and /image/<filename> when it failed.
C15_FallbackRecord ==
  /\ (Finished("index") /\ Latest.page_arg # Arg(<< "x" >>)) =>
        Latest.status = 200
  /\ Listed =>
       LET shown == SelectSeq(Latest.page_images, PresentAfter)
           recs  == Latest.images_data
       IN  /\ Len(recs) = Len(shown)
           /\ Len(Latest.calls) = Len(recs)
           /\ \A i \in 1..Len(recs) :
                LET name == recs[i].filename
                    call == Latest.calls[i]
                IN  /\ name = shown[i]
                    /\ call.path = name
                    /\ recs[i].full_url = [ route |-> "image", name |-> name ]
                    /\ call.result.has =>
                          recs[i].cache_url =
                            [ route |-> "cache",
                              name  |-> Stem[name] \o << "_" >> \o Latest.size
                                          \o << ".", "j", "p", "g" >> ]
                    /\ ~call.result.has =>
                          recs[i].cache_url =
                            [ route |-> "image", name |-> name ]

\* a listing of B.gif, the corrupt a.jpg and a.png in which a.jpg has the
\* URL of the original and a.png a cache URL
C15_Witness ==
  /\ Listed
  /\ Latest.pre_src[A_JPG] = "corrupt"
  /\ Len(Latest.images_data) = 3
  /\ Latest.images_data[2].filename = A_JPG
  /\ Latest.images_data[2].cache_url = [ route |-> "image", name |-> A_JPG ]
  /\ Latest.images_data[3].filename = A_PNG
  /\ Latest.images_data[3].cache_url =
       [ route |-> "cache", name |-> CacheFilename(A_PNG, Latest.size) ]
  /\ Latest.calls[3].decoded

\* C17 as stated: a delete that answers 500 because a removal failed leaves
\* the source file and all cache entries as they were before the request.
C17_FailedDeleteNoEffect ==
  (Finished("delete") /\ Latest.status = 500) =>
     /\ hist[1].post_src = Latest.pre_src
     /\ hist[1].post_cache = Latest.pre_cache

\* C17, the part that holds: a delete answers 500 exactly when a removal
\* failed, and the request ends with that answer, without another attempt
C17_FailureAnswers500 ==
  Finished("delete") => (Latest.status = 500) = Latest.faulted

\* C19: a delete that answers 204 changes nothing but the source file of
\* its image and the cache entries <base>_small.jpg, <base>_medium.jpg and
\* <base>_large.jpg: every other source file and every cache entry of
\* another base name is as before.
C19_DeleteFrame ==
  (Finished("delete") /\ Latest.status = 204) =>
     /\ \A n \in DOMAIN Latest.pre_src \ { Latest.filename } :
          hist[1].post_src[n] = Latest.pre_src[n]
     /\ \A f \in DOMAIN Latest.pre_cache \ TierFiles(Latest.filename) :
          hist[1].post_cache[f] = Latest.pre_cache[f]

\* a.jpg was deleted with its thumbnails, while a.png stays
C19_Witness ==
  /\ Finished("delete")
  /\ Latest.status = 204
  /\ Latest.filename = A_JPG
  /\ Latest.pre_src[A_PNG] = "v1" /\ src[A_PNG] = "v1"
  /\ Latest.pre_src[B_GIF] = "v1" /\ src[B_GIF] = "v1"
  /\ Latest.pre_cache[CacheFilename(A_JPG, MEDIUM)].st = "v1"
  /\ src[A_JPG] = "absent"

\* the files of the page that the latest listing of FrameSpec asked for:
\* the first IMAGES_PER_PAGE files, or on page 2 the one after them
AskedSlice ==
  IF Latest.page_arg = Arg(<< "2" >>)
    THEN { PageName(13) }
    ELSE { PageName(i) : i \in 1..12 }

\* the tier that the latest listing asked for
AskedTier ==
  IF Latest.size_arg = Arg(SMALL) THEN << "s", "m", "a", "l", "l" >>
  ELSE IF Latest.size_arg = Arg(LARGE) THEN << "l", "a", "r", "g", "e" >>
  ELSE << "m", "e", "d", "i", "u", "m" >>

\* the cache filenames NN_<tier>.jpg of the files of the page asked for
AskedKeys ==
  { SubSeq(n, 1, 2) \o << "_" >> \o AskedTier \o << ".", "j", "p", "g" >> :
      n \in AskedSlice }

\* C20: a listing in tier t changes no source file and no cache entry but
\* entries <base>_<t>.jpg of files of the page slice that did not exist
\* before: entries of files outside the slice and of the other two tiers
\* are as before, and an entry of the page that existed is not written.
C20_IndexFrame ==
  Listed =>
    /\ hist[1].post_src = Latest.pre_src
    /\ DOMAIN hist[1].post_cache = DOMAIN Latest.pre_cache
    /\ \A f \in DOMAIN Latest.pre_cache :
         hist[1].post_cache[f] # Latest.pre_cache[f] =>
            /\ f \in AskedKeys
            /\ Latest.pre_cache[f].st = "absent"
    /\ \A i \in 1..Len(Latest.calls) :
         Latest.calls[i].before.st # "absent" => ~Latest.calls[i].opened

\* page 1 in tier small made 01_small.jpg and left 02_small.jpg, which
\* existed, and the entries of 13.jpg and of the other tiers as they were
C20_Witness ==
  /\ Listed
  /\ Latest.size_arg = Arg(SMALL) /\ Latest.page_arg = NoArg
  /\ Latest.pre_cache[CacheFilename(PageName(1), SMALL)].st = "absent"
  /\ cache[CacheFilename(PageName(1), SMALL)].st = "v1"
  /\ Latest.pre_cache[CacheFilename(PageName(2), SMALL)].st = "v1"
  /\ Latest.calls[2].hit
  /\ cache[CacheFilename(PageName(13), SMALL)].st = "absent"
  /\ cache[CacheFilename(PageName(1), MEDIUM)].st = "absent"

(***************************************************************************)
(* Properties of requests that race with a delete, over the finished       *)
(* requests of ConcSpec.                                                   *)
(***************************************************************************)
\* C13: every request that runs after or while an image is deleted ends
\* with a defined answer: GET /image/<filename> and GET /cache/<filename>
\* answer 200 with the file or 404, never an unhandled error (500), and
\* listings and viewers are rendered (the viewer answers 404 for a file
\* that is not listed).
C13_DefinedOutcome ==
  \A i \in 1..Len(hist) :
    LET req == hist[i].req
    IN  /\ req.op \in { "serve_full", "serve_cached" } =>
              req.status \in { 200, 404 }
        /\ req.op = "index" => req.status = 200
        /\ req.op = "view" => req.status \in { 200, 404 }

\* C13, the part that holds: a request for a file that was gone when the
\* request started answers 404, and listings and viewers that race with a
\* delete are rendered, with the URL of the original where the thumbnail
\* of a deleted file could not be made
C13_ListingsRendered ==
  \A i \in 1..Len(hist) :
    LET req == hist[i].req
    IN  /\ (req.op = "serve_full" /\ req.pre_src[req.filename] = "absent")
              => req.status = 404
        /\ (req.op = "serve_cached"
             /\ req.pre_cache[req.filename].st = "absent") => req.status = 404
        /\ req.op = "index" => req.status = 200
        /\ req.op = "view" => req.status \in { 200, 404 }
        /\ (req.op \in { "index", "view" } /\ req.status = 200) =>
              \A j \in 1..Len(req.calls) :
                 (req.calls[j].decoded
                  /\ hist[i].post_src[req.calls[j].path] = "absent"
                  /\ req.calls[j].before.st = "absent"
                  /\ ~req.calls[j].opened) => ~req.calls[j].result.has

\* all requests that were started have answered
AllAnswered == \A t \in DOMAIN th : th[t].op = "idle"

\* C18: once a delete of X has answered 204 and every request in flight
\* has answered, no cache entry <base(X)>_<tier>.jpg exists unless a source
\* file with that base name exists.
C18_NoOrphanThumbnail ==
  AllAnswered =>
    \A i \in 1..Len(hist) :
      LET req == hist[i].req
      IN  (req.op = "delete" /\ req.status = 204) =>
            \A f \in TierFiles(req.filename) :
               cache[f].st # "absent" =>
                  \E n \in DOMAIN src :
                     SameBase(n, req.filename) /\ src[n] # "absent"

(***************************************************************************)
(* Properties of the life of a cache entry, over the two requests of       *)
(* EditSpec: Earlier is the first request and Latest the second; between   *)
(* them the user may have changed source files.                            *)
(***************************************************************************)
Earlier == hist[2].req

\* the calls of the first request that made a cache entry from their source
MadeByEarlier ==
  { i \in 1..Len(Earlier.calls) :
      /\ Earlier.calls[i].decoded
      /\ Earlier.calls[i].opened
      /\ Earlier.calls[i].result.has }

\* C11 as stated: a cache entry, once made, is there with the same content
\* after any later request and any change of its source file, unless that
\* request is a delete of the source image the entry was made from; a
\* later resolution of its key returns it, stale or not.
C11_RemovedOnlyByOwnDelete ==
  Len(hist) = 2 =>
    \A i \in MadeByEarlier :
      LET c == Earlier.calls[i]
      IN  /\ \/ hist[1].post_cache[c.key] = c.after
             \/ Latest.op = "delete" /\ Latest.filename = c.path
          /\ \A j \in 1..Len(Latest.calls) :
               Latest.calls[j].key = c.key =>
                  /\ Latest.calls[j].hit
                  /\ Latest.calls[j].result = c.result
                  /\ Latest.calls[j].after = c.after

\* C11, the part that holds: the same, with a delete of any source image
\* of the same base name (a.png for an entry made from a.jpg) as the
\* request that removes the entry
C11_PersistsUntilDeleteOfBase ==
  Len(hist) = 2 =>
    \A i \in MadeByEarlier :
      LET c == Earlier.calls[i]
      IN  /\ \/ hist[1].post_cache[c.key] = c.after
             \/ Latest.op = "delete" /\ SameBase(Latest.filename, c.path)
          /\ \A j \in 1..Len(Latest.calls) :
               Latest.calls[j].key = c.key =>
                  /\ Latest.calls[j].hit
                  /\ Latest.calls[j].result = c.result
                  /\ Latest.calls[j].after = c.after

\* a thumbnail was made from a.jpg, a.jpg was replaced by another picture,
\* and the next resolution returned the thumbnail of the old picture
C11_StaleReturned ==
  /\ Len(hist) = 2
  /\ Earlier.op = "resolve" /\ Earlier.filename = A_JPG
  /\ 1 \in MadeByEarlier
  /\ hist[2].post_src[A_JPG] = "v1"
  /\ Latest.pre_src[A_JPG] = "v2"
  /\ Latest.op = "resolve" /\ Latest.filename = A_JPG
  /\ Latest.calls[1].hit
  /\ cache[CacheFilename(A_JPG, MEDIUM)] = Thumb("v1")

\* the keys that no call of the first request returned a path for, although
\* a call for them failed
FailedInEarlier ==
  { Earlier.calls[i].key : i \in
      { i \in 1..Len(Earlier.calls) :
          /\ ~Earlier.calls[i].result.has
          /\ \A k \in 1..Len(Earlier.calls) :
               Earlier.calls[k].key = Earlier.calls[i].key =>
                  ~Earlier.calls[k].result.has } }

\* the first call of the second request for the key, if there is one
FirstInLatest(key) ==
  { j \in 1..Len(Latest.calls) :
      /\ Latest.calls[j].key = key
      /\ \A k \in 1..(j - 1) : Latest.calls[k].key # key }

\* C21: a failed resolution is not remembered: the next call for its key
\* is no cache hit and decodes its source again; if that source is
\* decodable by then, the call goes on to save the thumbnail, and unless
\* this save fails it returns the path and the cache entry holds the
\* thumbnail of the source as it is now.
C21_FailureNotRemembered ==
  Len(hist) = 2 =>
    \A key \in FailedInEarlier : \A j \in FirstInLatest(key) :
      LET c2  == Latest.calls[j]
          now == Latest.pre_src[c2.path]
      IN  /\ ~c2.hit /\ c2.decoded
          /\ c2.before.st = "absent"
          /\ (now \in Pictures) = c2.opened
          /\ c2.result.has => c2.after = Thumb(now)
          /\ ~c2.result.has => c2.after.st = "absent"

\* the resolution of the corrupt a.jpg failed, the user replaced a.jpg by
\* a decodable picture, and the next resolution made the thumbnail
C21_Witness ==
  /\ Len(hist) = 2
  /\ Earlier.op = "resolve" /\ Earlier.filename = A_JPG
  /\ Earlier.pre_src[A_JPG] = "corrupt"
  /\ ~Earlier.calls[1].result.has
  /\ Latest.op = "resolve" /\ Latest.filename = A_JPG
  /\ Latest.pre_src[A_JPG] = "v1"
  /\ Latest.calls[1].decoded /\ Latest.calls[1].result.has
  /\ cache[CacheFilename(A_JPG, MEDIUM)] = Thumb("v1")

=============================================================================
